---- MODULE Spec2Model ----
(***************************************************************************)
(* Model of src/matrix.rs: the fixed-size matrix family Matrix2x2,         *)
(* Matrix3x3, Matrix4x4 (row-major flat arrays of Elem) and the operations *)
(* get, transpose, submatrix, minor, cofactor, det, is_invertible,         *)
(* inverse, Matrix4x4 * Matrix4x4 and Matrix4x4 * Tuple4.                   *)
(*                                                                         *)
(* Elem (f64 in the source) is modelled by exact decimal-scaled rationals: *)
(* the triple <<n, d, e>> stands for (n / d) * 10^e.  The exponent keeps   *)
(* values as small as PRECISION = 1e-12 inside TLC's 32-bit integers.       *)
(* Rounding, NaN and infinities of f64 are outside the model: every        *)
(* statement below is a statement about the algorithms over exact          *)
(* arithmetic on finite inputs.                                            *)
(*                                                                         *)
(* A panic of the source is the result [kind |-> "panic"]; the thread that *)
(* panicked makes no further call.                                         *)
(***************************************************************************)
EXTENDS Integers, Sequences, FiniteSets, TLC

----------------------------------------------------------------------------
(* Let(x, F) is F applied to the value of x: x is evaluated exactly once,  *)
(* however often F uses it (a local `let v = x;` of the source).           *)

Let(x, F(_)) == CHOOSE r \in {F(v) : v \in {x}} : TRUE

----------------------------------------------------------------------------
(* Elem arithmetic: exact values n/d * 10^e in the normal form             *)
(* d > 0, gcd(n, d) = 1, gcd(d, 10) = 1, 10 does not divide n, 0 = <<0,1,0>> *)

RECURSIVE GCD(_, _)
GCD(a, b) ==
    Let(<<a, b>>, LAMBDA p : IF p[2] = 0 THEN p[1] ELSE GCD(p[2], p[1] % p[2]))

IAbs(k) == Let(k, LAMBDA v : IF v < 0 THEN -v ELSE v)

RECURSIVE Pow10(_)
Pow10(k) == Let(k, LAMBDA v : IF v = 0 THEN 1 ELSE 10 * Pow10(v - 1))

\* move the factors f (2 or 5) of the denominator of t = <<n, d, e>> into the exponent
RECURSIVE DropDen(_, _)
DropDen(t, f) ==
    Let(t, LAMBDA v :
        IF v[2] % f = 0
        THEN DropDen(<<v[1] * (10 \div f), v[2] \div f, v[3] - 1>>, f)
        ELSE v)

\* move the factors 10 of the numerator of t = <<n, d, e>>, n > 0, into the exponent
RECURSIVE DropNum(_)
DropNum(t) ==
    Let(t, LAMBDA v :
        IF v[1] % 10 = 0 THEN DropNum(<<v[1] \div 10, v[2], v[3] + 1>>) ELSE v)

\* the sign of n/d carried by the numerator, common factors removed
Reduced(t) ==
    Let(GCD(IAbs(t[1]), IAbs(t[2])), LAMBDA g :
        IF t[2] < 0 THEN <<(-t[1]) \div g, (-t[2]) \div g, t[3]>>
        ELSE <<t[1] \div g, t[2] \div g, t[3]>>)

NormValue(t) ==
    IF t[1] = 0 THEN <<0, 1, 0>>
    ELSE Let(DropDen(DropDen(Reduced(t), 2), 5), LAMBDA c :
             IF c[1] < 0
             THEN Let(DropNum(<<-c[1], c[2], c[3]>>), LAMBDA r : <<-r[1], r[2], r[3]>>)
             ELSE DropNum(c))

Norm(n, d, e) == Let(<<n, d, e>>, LAMBDA t : NormValue(t))

EInt(k) == Norm(k, 1, 0)
Zero == <<0, 1, 0>>
One == <<1, 1, 0>>
MinusOne == <<-1, 1, 0>>

EMulValue(a, b) ==
    IF a[1] = 0 \/ b[1] = 0 THEN <<0, 1, 0>>
    ELSE Norm(a[1] * b[1], a[2] * b[2], a[3] + b[3])

EMul(x, y) == Let(<<x, y>>, LAMBDA p : EMulValue(p[1], p[2]))

EAddValue(a, b) ==
    IF a[1] = 0 THEN b
    ELSE IF b[1] = 0 THEN a
    ELSE Let(IF a[3] < b[3] THEN a[3] ELSE b[3], LAMBDA e :
             Norm(a[1] * Pow10(a[3] - e) * b[2] + b[1] * Pow10(b[3] - e) * a[2],
                  a[2] * b[2], e))

EAdd(x, y) == Let(<<x, y>>, LAMBDA p : EAddValue(p[1], p[2]))

ENeg(x) == Let(x, LAMBDA a : <<-a[1], a[2], a[3]>>)
ESub(x, y) == EAdd(x, ENeg(y))
EDiv(x, y) == Let(<<x, y>>, LAMBDA p :
                  Norm(p[1][1] * p[2][2], p[1][2] * p[2][1], p[1][3] - p[2][3]))
EAbs(x) == Let(x, LAMBDA a : <<IAbs(a[1]), a[2], a[3]>>)
EScale(x, k) == Let(x, LAMBDA a : IF a[1] = 0 THEN a ELSE <<a[1], a[2], a[3] + k>>)

\* l * 10^k >= r for positive integers l, r, without forming l * 10^k
RECURSIVE ScaledGe(_, _, _)
ScaledGe(l, r, k) ==
    Let(<<l, r, k>>, LAMBDA v :
        IF v[3] = 0 THEN v[1] >= v[2]
        ELSE IF v[3] > 0 THEN ScaledGe(v[1], (v[2] + 9) \div 10, v[3] - 1)
        ELSE ScaledGe(v[1] \div 10, v[2], v[3] + 1))

\* a >= b for positive a and b
MagGe(a, b) == ScaledGe(a[1] * b[2], b[1] * a[2], a[3] - b[3])

EGeValue(a, b) ==
    IF a[1] >= 0 /\ b[1] <= 0 THEN TRUE
    ELSE IF a[1] <= 0 /\ b[1] >= 0 THEN FALSE
    ELSE IF a[1] > 0 THEN MagGe(a, b)
    ELSE MagGe(<<-b[1], b[2], b[3]>>, <<-a[1], a[2], a[3]>>)

EGe(x, y) == Let(<<x, y>>, LAMBDA p : EGeValue(p[1], p[2]))
ELt(x, y) == ~EGe(x, y)

----------------------------------------------------------------------------
(* Results of calls: a value, or a panic                                   *)

Ok(k, v) == [kind |-> k, val |-> v]
Panic == [kind |-> "panic", val |-> <<>>]

\* slice indexing data[i] of a 0-based array held as a 1-based sequence
At(data, i) == data[i + 1]

----------------------------------------------------------------------------
(* Free functions                                                          *)

to_index(size, y, x) == y * size + x

to_yx(size, i) == <<i \div size, i % size>>

\* self.data[i]: the bounds check of slice indexing
Index(data, i) == IF i < Len(data) THEN Ok("elem", At(data, i)) ELSE Panic

\* FilterFrom with a fault: the filter keeps y != row || x != col
RECURSIVE FilterFromEither(_, _, _, _, _, _)
FilterFromEither(acc, data, size, row, col, i) ==
    Let(acc, LAMBDA v :
        IF i >= Len(data) THEN v
        ELSE FilterFromEither(IF to_yx(size, i)[1] # row \/ to_yx(size, i)[2] # col
                              THEN Append(v, At(data, i)) ELSE v,
                              data, size, row, col, i + 1))

\* .iter().enumerate().map(to_yx).filter(y != row && x != col).map(n).collect()
RECURSIVE FilterFrom(_, _, _, _, _, _)
FilterFrom(acc, data, size, row, col, i) ==
    Let(acc, LAMBDA v :
        IF i >= Len(data) THEN v
        ELSE FilterFrom(IF to_yx(size, i)[1] # row /\ to_yx(size, i)[2] # col
                        THEN Append(v, At(data, i)) ELSE v,
                        data, size, row, col, i + 1))
Filtered(data, size, row, col) == FilterFrom(<<>>, data, size, row, col, 0)

\* Vec<Elem>.try_into::<[Elem; n]>().unwrap()
TryIntoUnwrap(kind, vec, n) ==
    Let(vec, LAMBDA v : IF Len(v) = n THEN Ok(kind, v) ELSE Panic)

----------------------------------------------------------------------------
(* Matrix2x2                                                               *)

Matrix2x2_N == 2
Matrix2x2_size == Matrix2x2_N * Matrix2x2_N

Matrix2x2_get(data, y, x) == Index(data, to_index(Matrix2x2_N, y, x))

Matrix2x2_det(data) ==
    ESub(EMul(At(data, 0), At(data, 3)), EMul(At(data, 1), At(data, 2)))

----------------------------------------------------------------------------
(* Matrix3x3                                                               *)

Matrix3x3_N == 3
Matrix3x3_size == Matrix3x3_N * Matrix3x3_N

Matrix3x3_get(data, y, x) == Index(data, to_index(Matrix3x3_N, y, x))

Matrix3x3_submatrix(data, row, col) ==
    TryIntoUnwrap("matrix2", Filtered(data, Matrix3x3_N, row, col), Matrix2x2_size)

Matrix3x3_minor(data, row, col) ==
    Let(Matrix3x3_submatrix(data, row, col), LAMBDA s :
        IF s.kind = "panic" THEN Panic ELSE Ok("elem", Matrix2x2_det(s.val)))

\* Matrix3x3_cofactor with a fault: the sign test is (row + col) % 2 == 0
Matrix3x3_cofactor_flipped(data, row, col) ==
    Let(IF (row + col) % 2 = 0 THEN MinusOne ELSE One, LAMBDA n :
        Let(Matrix3x3_minor(data, row, col), LAMBDA m :
            IF m.kind = "panic" THEN Panic ELSE Ok("elem", EMul(n, m.val))))

Matrix3x3_cofactor(data, row, col) ==
    Let(IF (row + col) % 2 = 1 THEN MinusOne ELSE One, LAMBDA n :
        Let(Matrix3x3_minor(data, row, col), LAMBDA m :
            IF m.kind = "panic" THEN Panic ELSE Ok("elem", EMul(n, m.val))))

\* data[..3].iter().enumerate().map(|(i, &n)| n * cofactor(0, i)).sum()
RECURSIVE Det3From(_, _, _)
Det3From(acc, data, i) ==
    Let(acc, LAMBDA sum :
        IF i >= 3 THEN sum
        ELSE Det3From(EAdd(sum, EMul(At(data, i), Matrix3x3_cofactor(data, 0, i).val)),
                      data, i + 1))
Matrix3x3_det(data) == Det3From(Zero, data, 0)

----------------------------------------------------------------------------
(* Matrix4x4                                                               *)

Matrix4x4_N == 4
Matrix4x4_size == Matrix4x4_N * Matrix4x4_N
PRECISION == <<1, 1, -12>>

Matrix4x4_zero == [i \in 1..Matrix4x4_size |-> Zero]

\* IdentityFrom with a fault: the stride is N, not N + 1
RECURSIVE IdentityFromStrideN(_, _)
IdentityFromStrideN(data, i) ==
    Let(data, LAMBDA matrix :
        IF i >= Matrix4x4_N THEN matrix
        ELSE IdentityFromStrideN([matrix EXCEPT ![i * Matrix4x4_N + 1] = One], i + 1))

\* for i in 0..N { matrix.data[i * (N + 1)] = 1.0 }
RECURSIVE IdentityFrom(_, _)
IdentityFrom(data, i) ==
    Let(data, LAMBDA matrix :
        IF i >= Matrix4x4_N THEN matrix
        ELSE IdentityFrom([matrix EXCEPT ![i * (Matrix4x4_N + 1) + 1] = One], i + 1))
Matrix4x4_identity == IdentityFrom(Matrix4x4_zero, 0)

Matrix4x4_get(data, y, x) == Index(data, to_index(Matrix4x4_N, y, x))

\* data.swap(a, b)
Swap(data, a, b) ==
    Let(data, LAMBDA d : [d EXCEPT ![a + 1] = At(d, b), ![b + 1] = At(d, a)])

\* TransposePairs with a fault: the inner loop is `for x in 0..N`
TransposePairsFull == [i \in 1..Matrix4x4_size |-> to_yx(Matrix4x4_N, i - 1)]

\* the pairs (y, x) of `for y in 0..N { for x in y..N {` in loop order
TransposePairs ==
    SelectSeq([i \in 1..Matrix4x4_size |-> to_yx(Matrix4x4_N, i - 1)],
              LAMBDA p : p[2] >= p[1])

RECURSIVE TransposeFrom(_, _, _)
TransposeFrom(data, pairs, k) ==
    Let(data, LAMBDA d :
        IF k > Len(pairs) THEN d
        ELSE TransposeFrom(Swap(d,
                                to_index(Matrix4x4_N, pairs[k][2], pairs[k][1]),
                                to_index(Matrix4x4_N, pairs[k][1], pairs[k][2])),
                           pairs, k + 1))

Matrix4x4_transpose(data) == TransposeFrom(data, TransposePairs, 1)

Matrix4x4_submatrix(data, row, col) ==
    TryIntoUnwrap("matrix3", Filtered(data, Matrix4x4_N, row, col), Matrix3x3_size)

Matrix4x4_minor(data, row, col) ==
    Let(Matrix4x4_submatrix(data, row, col), LAMBDA s :
        IF s.kind = "panic" THEN Panic ELSE Ok("elem", Matrix3x3_det(s.val)))

Matrix4x4_cofactor(data, row, col) ==
    Let(IF (row + col) % 2 = 1 THEN MinusOne ELSE One, LAMBDA n :
        Let(Matrix4x4_minor(data, row, col), LAMBDA m :
            IF m.kind = "panic" THEN Panic ELSE Ok("elem", EMul(n, m.val))))

\* data[..N].iter().enumerate().map(|(i, &n)| n * cofactor(0, i)).sum()
RECURSIVE Det4From(_, _, _)
Det4From(acc, data, i) ==
    Let(acc, LAMBDA sum :
        IF i >= Matrix4x4_N THEN sum
        ELSE Det4From(EAdd(sum, EMul(At(data, i), Matrix4x4_cofactor(data, 0, i).val)),
                      data, i + 1))
Matrix4x4_det(data) == Det4From(Zero, data, 0)

\* is_invertible_with_det with a fault: det.abs() > PRECISION
is_invertible_with_det_strict(data) ==
    Let(Matrix4x4_det(data), LAMBDA det : <<~EGe(PRECISION, EAbs(det)), det>>)

is_invertible_with_det(data) ==
    Let(Matrix4x4_det(data), LAMBDA det : <<EGe(EAbs(det), PRECISION), det>>)

Matrix4x4_is_invertible(data) == is_invertible_with_det(data)[1]

\* InverseFrom with a fault: the cofactor of (y, x) is stored at (y, x)
RECURSIVE InverseFromUntransposed(_, _, _, _)
InverseFromUntransposed(matrix, data, det, k) ==
    Let(matrix, LAMBDA m :
        IF k >= Matrix4x4_size THEN m
        ELSE InverseFromUntransposed(
                 [m EXCEPT
                     ![to_index(Matrix4x4_N, to_yx(Matrix4x4_N, k)[1], to_yx(Matrix4x4_N, k)[2]) + 1] =
                         EDiv(Matrix4x4_cofactor(data, to_yx(Matrix4x4_N, k)[1],
                                                 to_yx(Matrix4x4_N, k)[2]).val, det)],
                 data, det, k + 1))

\* InverseFrom with a fault: the cofactor is stored without the division by det
RECURSIVE InverseFromUndivided(_, _, _, _)
InverseFromUndivided(matrix, data, det, k) ==
    Let(matrix, LAMBDA m :
        IF k >= Matrix4x4_size THEN m
        ELSE InverseFromUndivided(
                 [m EXCEPT
                     ![to_index(Matrix4x4_N, to_yx(Matrix4x4_N, k)[2], to_yx(Matrix4x4_N, k)[1]) + 1] =
                         Matrix4x4_cofactor(data, to_yx(Matrix4x4_N, k)[1],
                                            to_yx(Matrix4x4_N, k)[2]).val],
                 data, det, k + 1))

\* the double loop of inverse: matrix.data[to_index(x, y)] = cofactor(y, x) / det,
\* k running over the pairs (y, x) in loop order
RECURSIVE InverseFrom(_, _, _, _)
InverseFrom(matrix, data, det, k) ==
    Let(matrix, LAMBDA m :
        IF k >= Matrix4x4_size THEN m
        ELSE InverseFrom(
                 [m EXCEPT
                     ![to_index(Matrix4x4_N, to_yx(Matrix4x4_N, k)[2], to_yx(Matrix4x4_N, k)[1]) + 1] =
                         EDiv(Matrix4x4_cofactor(data, to_yx(Matrix4x4_N, k)[1],
                                                 to_yx(Matrix4x4_N, k)[2]).val, det)],
                 data, det, k + 1))

Matrix4x4_inverse(data) ==
    Let(is_invertible_with_det(data), LAMBDA r :
        IF ~r[1] THEN Panic
        ELSE Ok("matrix4", InverseFrom(Matrix4x4_zero, data, r[2], 0)))

\* DotFrom with a fault: the operands are taken in the reverse order
RECURSIVE DotFromReversed(_, _, _, _, _, _)
DotFromReversed(acc, lhs, rhs, y, x, n) ==
    Let(acc, LAMBDA sum :
        IF n >= Matrix4x4_N THEN sum
        ELSE DotFromReversed(EAdd(sum, EMul(Matrix4x4_get(rhs, y, n).val,
                                            Matrix4x4_get(lhs, n, x).val)),
                             lhs, rhs, y, x, n + 1))

\* (0..N).map(|n| self.get(y, n) * rhs.get(n, x)).sum()
RECURSIVE DotFrom(_, _, _, _, _, _)
DotFrom(acc, lhs, rhs, y, x, n) ==
    Let(acc, LAMBDA sum :
        IF n >= Matrix4x4_N THEN sum
        ELSE DotFrom(EAdd(sum, EMul(Matrix4x4_get(lhs, y, n).val,
                                    Matrix4x4_get(rhs, n, x).val)),
                     lhs, rhs, y, x, n + 1))

\* impl Mul<Matrix4x4> for Matrix4x4: data[to_index(y, x)] = the sum, for every y, x
Matrix4x4_mul(lhs, rhs) ==
    [i \in 1..Matrix4x4_size |->
        DotFrom(Zero, lhs, rhs, to_yx(Matrix4x4_N, i - 1)[1], to_yx(Matrix4x4_N, i - 1)[2], 0)]

Tuple4_new(x, y, z, w) == [x |-> x, y |-> y, z |-> z, w |-> w]

\* row i of self.data.chunks(N)
Chunk(data, i) == SubSeq(data, i * Matrix4x4_N + 1, i * Matrix4x4_N + Matrix4x4_N)

\* RowTimes with a fault: the components z and w are exchanged
RowTimesExchanged(row, rhs) ==
    EAdd(EAdd(EAdd(EMul(row[1], rhs.x), EMul(row[2], rhs.y)), EMul(row[3], rhs.w)),
         EMul(row[4], rhs.z))

\* row[0] * rhs.x + row[1] * rhs.y + row[2] * rhs.z + row[3] * rhs.w
RowTimes(row, rhs) ==
    EAdd(EAdd(EAdd(EMul(row[1], rhs.x), EMul(row[2], rhs.y)), EMul(row[3], rhs.z)),
         EMul(row[4], rhs.w))

\* impl Mul<Tuple4> for Matrix4x4
Matrix4x4_mul_tuple(data, rhs) ==
    Tuple4_new(RowTimes(Chunk(data, 0), rhs), RowTimes(Chunk(data, 1), rhs),
               RowTimes(Chunk(data, 2), rhs), RowTimes(Chunk(data, 3), rhs))

----------------------------------------------------------------------------
(* Inputs: the matrices and tuples a caller constructs with new()          *)

MaxDelta == 1
MaxScale == 4
MaxIndex == 4
MaxDepth == 2

Matrix4x4_new(ints) == [i \in 1..Len(ints) |-> EInt(ints[i])]

\* upper unitriangular, determinant 1, not symmetric
BaseU == Matrix4x4_new(<<1, 2, 0, 1,   0, 1, 3, 0,   0, 0, 1, -1,   0, 0, 0, 1>>)
\* determinant 2, not symmetric
BaseP == Matrix4x4_new(<<0, 2, 0, 0,   1, 0, 0, 0,   0, 0, 0, 1,   0, 0, 1, 1>>)
\* sixteen distinct entries, determinant 0
BaseC == Matrix4x4_new(<<1, 2, 3, 4,   5, 6, 7, 8,   9, 10, 11, 12,   13, 14, 15, 16>>)

\* sixteen distinct entries, determinant 2, no minor is 0
BaseD == Matrix4x4_new(<<1, 7, 3, 16,   5, 6, 2, 8,   9, 10, 4, 12,   13, 14, 15, 11>>)

Bases == {BaseU, BaseP, BaseC, BaseD}

\* one entry of m changed by v
Perturbed(m, p, v) == [m EXCEPT ![p] = EAdd(m[p], EInt(v))]

\* every entry of m multiplied by 10^k
Scaled(m, k) == [i \in 1..Len(m) |-> EScale(m[i], k)]

Family ==
    Bases
    \cup {Perturbed(BaseU, p, v) : p \in 1..Matrix4x4_size, v \in 1..MaxDelta}
    \cup {Scaled(m, k) : m \in {BaseU, BaseP}, k \in (-MaxScale)..MaxScale}

Operands == {Matrix4x4_identity, BaseP}

Tuples == {Tuple4_new(EInt(1), EInt(2), EInt(3), EInt(1)),
           Tuple4_new(EInt(-2), EInt(0), EInt(5), EInt(0))}

Indices == 0..MaxIndex

----------------------------------------------------------------------------
(* State                                                                   *)

VARIABLES
    self,     \* the Matrix4x4 the caller holds (its data array)
    origin,   \* the call that produced self: its name and its receiver
    call,     \* the most recent call: name, receiver, arguments, result
    depth     \* number of matrix-producing calls made so far

vars == <<self, origin, call, depth>>

NoCall == [op |-> "none", self |-> <<>>, args |-> <<>>,
           res |-> [kind |-> "none", val |-> <<>>],
           from |-> [op |-> "none", self |-> <<>>]]

\* from: the call that produced the matrix the caller held when it made this call
Call(op, recv, args, res) ==
    [op |-> op, self |-> recv, args |-> args, res |-> res, from |-> origin]

\* a panic unwinds the calling thread: no call follows it
Alive == call.res.kind # "panic"

Init ==
    /\ self \in Family
    /\ origin = [op |-> "new", self |-> <<>>]
    /\ call = NoCall
    /\ depth = 0

InitMinor ==
    /\ self \in {BaseD, BaseU, BaseC}
    /\ origin = [op |-> "new", self |-> <<>>]
    /\ call = NoCall
    /\ depth = 0

\* a call that returns a Matrix4x4 (or panics): the caller goes on with the result
Produce(op, recv, args, result) ==
    /\ Alive
    /\ depth < MaxDepth
    /\ \E res \in {result} :
        /\ call' = Call(op, recv, args, res)
        /\ self' = IF res.kind = "panic" THEN self ELSE res.val
        /\ origin' = IF res.kind = "panic" THEN origin ELSE [op |-> op, self |-> recv]
    /\ depth' = depth + 1

\* a call that reads the receiver and returns something else
Query(op, recv, args, res) ==
    /\ Alive
    /\ call' = Call(op, recv, args, res)
    /\ UNCHANGED <<self, origin, depth>>

----------------------------------------------------------------------------
(* Matrix4x4 public operations                                             *)

Identity == Produce("identity", <<>>, <<>>, Ok("matrix4", Matrix4x4_identity))

Transpose == Produce("transpose", self, <<>>, Ok("matrix4", Matrix4x4_transpose(self)))

Inverse == Produce("inverse", self, <<>>, Matrix4x4_inverse(self))

Det == Query("det", self, <<>>, Ok("elem", Matrix4x4_det(self)))

IsInvertible == Query("is_invertible", self, <<>>, Ok("bool", Matrix4x4_is_invertible(self)))

\* self * rhs
MulRight ==
    \E rhs \in Operands :
        Produce("mul", self, <<rhs>>, Ok("matrix4", Matrix4x4_mul(self, rhs)))

\* lhs * self
MulLeft ==
    \E lhs \in Operands :
        Produce("mul", lhs, <<self>>, Ok("matrix4", Matrix4x4_mul(lhs, self)))

MulTuple ==
    \E t \in Tuples :
        Query("mul_tuple", self, <<t>>, Ok("tuple", Matrix4x4_mul_tuple(self, t)))

Get4 ==
    \E y \in Indices, x \in Indices :
        Query("get4", self, <<y, x>>, Matrix4x4_get(self, y, x))

----------------------------------------------------------------------------
(* The minor family: Matrix4x4 -> Matrix3x3 -> Matrix2x2                   *)

Submatrix4 ==
    \E row \in Indices, col \in Indices :
        Query("submatrix4", self, <<row, col>>, Matrix4x4_submatrix(self, row, col))

Minor4 ==
    \E row \in Indices, col \in Indices :
        Query("minor4", self, <<row, col>>, Matrix4x4_minor(self, row, col))

Cofactor4 ==
    \E row \in Indices, col \in Indices :
        Query("cofactor4", self, <<row, col>>, Matrix4x4_cofactor(self, row, col))

\* calls on the Matrix3x3 a submatrix call has just returned
Get3 ==
    /\ call.res.kind = "matrix3"
    /\ \E y \in Indices, x \in Indices :
        Query("get3", call.res.val, <<y, x>>, Matrix3x3_get(call.res.val, y, x))

Submatrix3 ==
    /\ call.res.kind = "matrix3"
    /\ \E row \in Indices, col \in Indices :
        Query("submatrix3", call.res.val, <<row, col>>,
              Matrix3x3_submatrix(call.res.val, row, col))

Minor3 ==
    /\ call.res.kind = "matrix3"
    /\ \E row \in Indices, col \in Indices :
        Query("minor3", call.res.val, <<row, col>>,
              Matrix3x3_minor(call.res.val, row, col))

Cofactor3 ==
    /\ call.res.kind = "matrix3"
    /\ \E row \in Indices, col \in Indices :
        Query("cofactor3", call.res.val, <<row, col>>,
              Matrix3x3_cofactor(call.res.val, row, col))

Det3 ==
    /\ call.res.kind = "matrix3"
    /\ Query("det3", call.res.val, <<>>, Ok("elem", Matrix3x3_det(call.res.val)))

\* calls on the Matrix2x2 a submatrix call has just returned
Get2 ==
    /\ call.res.kind = "matrix2"
    /\ \E y \in Indices, x \in Indices :
        Query("get2", call.res.val, <<y, x>>, Matrix2x2_get(call.res.val, y, x))

Det2 ==
    /\ call.res.kind = "matrix2"
    /\ Query("det2", call.res.val, <<>>, Ok("elem", Matrix2x2_det(call.res.val)))

----------------------------------------------------------------------------
(* Specifications                                                          *)

\* transpose, determinant, invertibility and inversion
Next == Transpose \/ Inverse \/ Det \/ IsInvertible

Spec == Init /\ [][Next]_vars

\* the products
NextMul == Identity \/ MulRight \/ MulLeft \/ MulTuple

SpecMul == Init /\ [][NextMul]_vars

\* element access and the submatrix / minor / cofactor family of every order
NextMinor ==
    \/ Get4 \/ Submatrix4 \/ Minor4 \/ Cofactor4
    \/ Get3 \/ Submatrix3 \/ Minor3 \/ Cofactor3 \/ Det3
    \/ Get2 \/ Det2

SpecMinor == InitMinor /\ [][NextMinor]_vars

----------------------------------------------------------------------------
(* Reference definitions: the mathematics the claims compare the code with *)

\* entry (r, c) of a row-major matrix of order n
Entry(m, n, r, c) == m[r * n + c + 1]

RECURSIVE SetToSeq(_)
SetToSeq(S) ==
    Let(S, LAMBDA T :
        IF T = {} THEN <<>>
        ELSE Let(CHOOSE x \in T : TRUE, LAMBDA x : <<x>> \o SetToSeq(T \ {x})))

\* the permutations of 0..n-1, p[i] the column chosen in row i-1
PermutationsOf(n) ==
    SetToSeq({p \in [1..n -> 0..(n - 1)] : \A i, j \in 1..n : i # j => p[i] # p[j]})

Permutations3 == PermutationsOf(3)
Permutations4 == PermutationsOf(4)

Inversions(p) ==
    Cardinality({ij \in (1..Len(p)) \X (1..Len(p)) : ij[1] < ij[2] /\ p[ij[1]] > p[ij[2]]})

RECURSIVE ProductFrom(_, _, _, _, _)
ProductFrom(acc, m, n, p, i) ==
    IF i > n THEN acc
    ELSE ProductFrom(EMul(acc, Entry(m, n, i - 1, p[i])), m, n, p, i + 1)

\* the signed products of the permutations perms[lo..hi], summed
RECURSIVE LeibnizSum(_, _, _, _, _)
LeibnizSum(m, n, perms, lo, hi) ==
    IF lo = hi
    THEN ProductFrom(IF Inversions(perms[lo]) % 2 = 1 THEN MinusOne ELSE One,
                     m, n, perms[lo], 1)
    ELSE EAdd(LeibnizSum(m, n, perms, lo, (lo + hi) \div 2),
              LeibnizSum(m, n, perms, (lo + hi) \div 2 + 1, hi))

\* the determinant as the signed sum over all permutations
Leibniz3(m) == Let(m, LAMBDA d : LeibnizSum(d, 3, Permutations3, 1, Len(Permutations3)))
Leibniz4(m) == Let(m, LAMBDA d : LeibnizSum(d, 4, Permutations4, 1, Len(Permutations4)))

\* m of order n with row `row` and column `col` deleted
Deleted(m, n, row, col) ==
    [k \in 1..((n - 1) * (n - 1)) |->
        Entry(m, n,
              ((k - 1) \div (n - 1)) + (IF (k - 1) \div (n - 1) >= row THEN 1 ELSE 0),
              ((k - 1) % (n - 1)) + (IF (k - 1) % (n - 1) >= col THEN 1 ELSE 0))]

\* (-1)^(row+col) times the determinant of m with row and col deleted
RefCofactor4(m, row, col) ==
    EMul(IF (row + col) % 2 = 0 THEN One ELSE MinusOne, Leibniz3(Deleted(m, 4, row, col)))

RefIdentity4 == [k \in 1..16 |-> IF (k - 1) \div 4 = (k - 1) % 4 THEN One ELSE Zero]

\* sum over k of a[row,k] * b[k,col]
RefDot4(a, b, row, col) ==
    EAdd(EAdd(EAdd(EMul(Entry(a, 4, row, 0), Entry(b, 4, 0, col)),
                   EMul(Entry(a, 4, row, 1), Entry(b, 4, 1, col))),
              EMul(Entry(a, 4, row, 2), Entry(b, 4, 2, col))),
         EMul(Entry(a, 4, row, 3), Entry(b, 4, 3, col)))

RefProduct4(a, b) == [k \in 1..16 |-> RefDot4(a, b, (k - 1) \div 4, (k - 1) % 4)]

TenToMinus12 == <<1, 1, -12>>
TenTo12 == <<1, 1, 12>>

InRange4 == (0..3) \X (0..3)

----------------------------------------------------------------------------
(* Claims                                                                  *)

\* C1: inverse(m) panics, returning no matrix, exactly when is_invertible(m) is
\* false, and returns a complete 16-entry matrix exactly when it is true;
\* is_invertible(m) is true iff |det(m)| >= 1e-12, det the mathematical determinant
\* (so every matrix of determinant 0 is non-invertible and makes inverse panic).
C1_InverseFailsIffNotInvertible ==
    /\ call.op = "inverse" =>
        Let(EGe(EAbs(Leibniz4(call.self)), TenToMinus12), LAMBDA invertible :
            /\ Matrix4x4_is_invertible(call.self) = invertible
            /\ ~invertible => call.res = Panic
            /\ invertible => call.res.kind = "matrix4" /\ Len(call.res.val) = 16)
    /\ call.op = "is_invertible" =>
        /\ call.res.val = EGe(EAbs(Leibniz4(call.self)), TenToMinus12)
        /\ Leibniz4(call.self) = Zero => call.res.val = FALSE

\* C1 witness: inverse has panicked on a matrix whose determinant is not 0
\* but below 1e-12
C1_Witness ==
    /\ call.op = "inverse"
    /\ call.res.kind = "panic"
    /\ Leibniz4(call.self) # Zero

\* C2: for invertible m, entry (col, row) of inverse(m) is cofactor(m, row, col) / det(m),
\* the cofactor being (-1)^(row+col) times the determinant of m without row `row`
\* and column `col`; the result is the inverse of m: m * inverse(m) is the identity.
C2_InverseIsAdjugateOverDet ==
    (call.op = "inverse" /\ call.res.kind = "matrix4") =>
        Let(Leibniz4(call.self), LAMBDA d :
            /\ \A rc \in InRange4 :
                Let(RefCofactor4(call.self, rc[1], rc[2]), LAMBDA c :
                    /\ Entry(call.res.val, 4, rc[2], rc[1]) = EDiv(c, d)
                    /\ EMul(d, Entry(call.res.val, 4, rc[2], rc[1])) = c)
            /\ RefProduct4(call.self, call.res.val) = RefIdentity4)

\* C2 witness: an inverse that is not symmetric has been returned, so that the
\* transposed index assignment matters
C2_Witness ==
    /\ call.op = "inverse"
    /\ call.res.kind = "matrix4"
    /\ \E rc \in InRange4 :
        Entry(call.res.val, 4, rc[1], rc[2]) # Entry(call.res.val, 4, rc[2], rc[1])

\* C3 as stated: for every invertible m, inverse(inverse(m)) is defined and each of
\* its entries differs from the entry of m by less than 1e-12.
C3_RoundTripAlwaysDefined ==
    (call.op = "inverse" /\ call.from.op = "inverse") =>
        /\ call.res.kind = "matrix4"
        /\ \A i \in 1..16 :
            ELt(EAbs(ESub(call.res.val[i], call.from.self[i])), TenToMinus12)

\* C3 amended: for invertible m with |det(m)| <= 1e12, inverse(inverse(m)) is
\* defined and equals m; for |det(m)| > 1e12 the second inverse panics, the
\* determinant of inverse(m) being below 1e-12.
C3_RoundTripWhenInverseIsInvertible ==
    (call.op = "inverse" /\ call.from.op = "inverse") =>
        IF EGe(TenTo12, EAbs(Leibniz4(call.from.self)))
        THEN /\ call.res.kind = "matrix4"
             /\ call.res.val = call.from.self
             /\ \A i \in 1..16 :
                 ELt(EAbs(ESub(call.res.val[i], call.from.self[i])), TenToMinus12)
        ELSE call.res = Panic

\* C3 witness: a matrix other than the identity has been inverted twice
C3_Witness ==
    /\ call.op = "inverse"
    /\ call.from.op = "inverse"
    /\ call.res.kind = "matrix4"
    /\ call.res.val # call.self

\* C4: det(m) of a 4x4 matrix is the expansion along row 0, the sum over col of
\* m[0,col] * cofactor(m,0,col), every cofactor the signed order-3 determinant of
\* the submatrix, and equals the permutation-sum determinant of m.
C4_DetIsRowZeroExpansion ==
    call.op = "det" =>
        /\ call.res.val = Leibniz4(call.self)
        /\ call.res.val =
            EAdd(EAdd(EAdd(EMul(Entry(call.self, 4, 0, 0), RefCofactor4(call.self, 0, 0)),
                           EMul(Entry(call.self, 4, 0, 1), RefCofactor4(call.self, 0, 1))),
                      EMul(Entry(call.self, 4, 0, 2), RefCofactor4(call.self, 0, 2))),
                 EMul(Entry(call.self, 4, 0, 3), RefCofactor4(call.self, 0, 3)))
        /\ \A col \in 0..3 :
            Matrix4x4_cofactor(call.self, 0, col).val = RefCofactor4(call.self, 0, col)

\* C4 witness: a determinant other than 0 and 1 has been computed from a row 0
\* with at least two entries that are not 0
C4_Witness ==
    /\ call.op = "det"
    /\ call.res.val \notin {Zero, One}
    /\ Cardinality({c \in 0..3 : Entry(call.self, 4, 0, c) # Zero}) >= 2

\* C5: (a * b)[row,col] is the sum over k of a[row,k] * b[k,col]
C5_ProductIsRowByColumn ==
    call.op = "mul" =>
        \A rc \in InRange4 :
            Entry(call.res.val, 4, rc[1], rc[2]) = RefDot4(call.self, call.args[1], rc[1], rc[2])

\* C5 witness: two matrices that do not commute have been multiplied
C5_Witness ==
    /\ call.op = "mul"
    /\ RefProduct4(call.self, call.args[1]) # RefProduct4(call.args[1], call.self)

\* C6: identity() has 1 at every (i,i) and 0 elsewhere; m * identity() = m,
\* identity() * m = m and identity() * t = t.
C6_IdentityIsNeutral ==
    /\ (call.op = "identity") =>
        /\ call.res.val = RefIdentity4
        /\ \A rc \in InRange4 :
            Matrix4x4_get(call.res.val, rc[1], rc[2]) =
                Ok("elem", IF rc[1] = rc[2] THEN One ELSE Zero)
    /\ (call.op = "mul" /\ call.args[1] = Matrix4x4_identity) => call.res.val = call.self
    /\ (call.op = "mul" /\ call.self = Matrix4x4_identity) => call.res.val = call.args[1]
    /\ (call.op = "mul_tuple" /\ call.self = Matrix4x4_identity) =>
            call.res.val = call.args[1]

\* C6 witness: identity() has multiplied, from the left, a matrix that is not
\* the identity
C6_Witness ==
    /\ call.op = "mul"
    /\ call.self = RefIdentity4
    /\ call.args[1] # RefIdentity4

\* C7: transpose(m)[row,col] = m[col,row] for all row, col, and transposing
\* twice returns the original matrix.
C7_TransposeSwapsIndices ==
    call.op = "transpose" =>
        /\ \A rc \in InRange4 :
            Entry(call.res.val, 4, rc[1], rc[2]) = Entry(call.self, 4, rc[2], rc[1])
        /\ call.from.op = "transpose" => call.res.val = call.from.self

\* C7 witness: a matrix that is not symmetric has been transposed twice
C7_Witness ==
    /\ call.op = "transpose"
    /\ call.from.op = "transpose"
    /\ call.res.val # call.self

\* C8: component i of m * t is m[i,0]*x + m[i,1]*y + m[i,2]*z + m[i,3]*w,
\* the components named x, y, z, w in that order.
C8_TupleProductIsRowTimesColumn ==
    call.op = "mul_tuple" =>
        Let(<<call.args[1].x, call.args[1].y, call.args[1].z, call.args[1].w>>, LAMBDA t :
            Let(<<call.res.val.x, call.res.val.y, call.res.val.z, call.res.val.w>>, LAMBDA r :
                \A i \in 0..3 :
                    r[i + 1] =
                        EAdd(EAdd(EAdd(EMul(Entry(call.self, 4, i, 0), t[1]),
                                       EMul(Entry(call.self, 4, i, 1), t[2])),
                                  EMul(Entry(call.self, 4, i, 2), t[3])),
                             EMul(Entry(call.self, 4, i, 3), t[4]))))

\* C8 witness: a tuple has been multiplied by a matrix that is not symmetric
\* and the product differs from the tuple
C8_Witness ==
    /\ call.op = "mul_tuple"
    /\ call.res.val # call.args[1]
    /\ call.self # Matrix4x4_transpose(call.self)

\* the order of the receiver of a call of the minor family
OrderOf(op) ==
    IF op \in {"get4", "submatrix4", "minor4", "cofactor4"} THEN 4
    ELSE IF op \in {"get3", "submatrix3", "minor3", "cofactor3"} THEN 3
    ELSE IF op = "get2" THEN 2
    ELSE 0

\* C9: every call of get, submatrix, minor or cofactor on a matrix of order N
\* with the row index or the column index outside [0,N) fails and returns no value.
C9_OutOfRangeIndexFails ==
    (OrderOf(call.op) # 0 /\ (call.args[1] >= OrderOf(call.op) \/ call.args[2] >= OrderOf(call.op)))
        => call.res = Panic

\* C10: for in-range row and col, submatrix(m,row,col) of a matrix of order N in
\* {3,4} never fails and is the order-(N-1) matrix with
\* result[i,j] = m[i + (1 if i >= row else 0), j + (1 if j >= col else 0)].
C10_SubmatrixDeletesRowAndColumn ==
    /\ (call.op = "submatrix4" /\ call.args[1] < 4 /\ call.args[2] < 4) =>
        /\ call.res.kind = "matrix3"
        /\ Len(call.res.val) = 9
        /\ call.res.val = Deleted(call.self, 4, call.args[1], call.args[2])
    /\ (call.op = "submatrix3" /\ call.args[1] < 3 /\ call.args[2] < 3) =>
        /\ call.res.kind = "matrix2"
        /\ Len(call.res.val) = 4
        /\ call.res.val = Deleted(call.self, 3, call.args[1], call.args[2])

\* C10 witness: the middle row and column of a Matrix3x3 with nine distinct
\* entries have been deleted
C10_Witness ==
    /\ call.op = "submatrix3"
    /\ call.args = <<1, 1>>
    /\ call.res.kind = "matrix2"
    /\ Cardinality({call.self[i] : i \in 1..9}) = 9

====
